---- MODULE Spec2Model ----
(***************************************************************************)
(* Ring-buffer index iterator of ufw (src/c/ring-buffer-iter.c).           *)
(*                                                                         *)
(* An rb_iter holds four size_t/enum fields: size (capacity of the ring),  *)
(* index (current slot), mode (direction) and steps (slots left to visit). *)
(* rb_iter_done() tests steps == 0; rb_iter_advance() moves index one slot *)
(* in the direction of mode, decrements steps and returns the new index.   *)
(*                                                                         *)
(* The model keeps a small pool of iterators, the arguments each one was   *)
(* constructed with, the number of rb_iter_advance() calls made on each,   *)
(* the indices rb_iter_advance() returned for each, and the last call       *)
(* together with what it returned.                                         *)
(*                                                                         *)
(* RangeValidator of src/c++/Validator.h is modelled beside it: an object  *)
(* holding the two limits, and the last value it was applied to.           *)
(***************************************************************************)
EXTENDS Integers, FiniteSets, Sequences, TLC

VARIABLES iters,   \* iters[w]: the rb_iter object of walker w
          args,    \* args[w]: the fields walker w was constructed with
          calls,   \* calls[w]: number of rb_iter_advance() calls on w so far
          last,    \* the last call: operation, walker, returned values
          visited, \* visited[w]: the indices rb_iter_advance() returned for w
          validator, \* the RangeValidator object (its min and max)
          verdict  \* the last application of the validator and its result

vars == <<iters, args, calls, last, visited, validator, verdict>>

----------------------------------------------------------------------------
(* Bounds of the model *)

MaxCap == 5        \* largest capacity constructed under Spec and LoopSpec
MaxSteps == 6      \* largest step budget constructed under Spec and LoopSpec
MaxCalls == 8      \* rb_iter_advance() calls explored per walker under Spec
MaxPairCap == 3    \* largest capacity constructed under PairSpec
MaxPairSteps == 2  \* largest step budget constructed under PairSpec
MaxPairCalls == 2  \* rb_iter_advance() calls explored per walker under PairSpec
MaxCtorCap == 3    \* largest capacity requested under CtorSpec
MaxCtorSteps == 2  \* largest step budget requested under CtorSpec
MaxCtorCalls == 3  \* rb_iter_advance() calls explored per walker under CtorSpec
MaxVal == 3        \* largest value of T given to RangeValidator

----------------------------------------------------------------------------
(* Types of the program *)

\* size_t is an unsigned type of implementation-defined width, at least 16
\* bits.  The model uses the minimum width; the arithmetic of the iterator is
\* the same modulo any 2^w.
SIZE_MAX == 65535

\* Conversion of an integer result to size_t (unsigned arithmetic wraps).
SizeT(n) == n % (SIZE_MAX + 1)

RING_BUFFER_ITER_OLD_TO_NEW == "OLD_TO_NEW"
RING_BUFFER_ITER_NEW_TO_OLD == "NEW_TO_OLD"

rb_iter_mode == {RING_BUFFER_ITER_OLD_TO_NEW, RING_BUFFER_ITER_NEW_TO_OLD}

W1 == "w1"
W2 == "w2"
Walkers == {W1, W2}

\* The slot of a walker that has not been constructed.
NoIter == [size |-> 0, index |-> 0, mode |-> "none", steps |-> 0]

Constructed(w) == args[w] # NoIter

----------------------------------------------------------------------------
(* The functions of ring-buffer-iter.c *)

\* Variant of rb_iter_done() written with an assignment for the comparison:
\* return (iter->steps = 0);
rb_iter_done_Assign(iter) == [iter |-> [iter EXCEPT !.steps = 0], ret |-> FALSE]

\* Variant of rb_iter_done() that consumes a step: return (iter->steps-- == 0);
rb_iter_done_Decrement(iter) ==
    [iter |-> [iter EXCEPT !.steps = SizeT(iter.steps - 1)],
     ret |-> (iter.steps = 0)]

\* Variant of rb_iter_done() that stops one step early: return (iter->steps <= 1);
rb_iter_done_OffByOne(iter) == [iter |-> iter, ret |-> (iter.steps <= 1)]

\* rb_iter_done(): the value returned, and the object as the call leaves it.
rb_iter_done(iter) == [iter |-> iter, ret |-> (iter.steps = 0)]

\* Variant of the switch whose forward case lacks the modulo.
IndexExpr_NoWrap(iter) ==
    CASE iter.mode = RING_BUFFER_ITER_OLD_TO_NEW -> SizeT(iter.index + 1)
      [] iter.mode = RING_BUFFER_ITER_NEW_TO_OLD ->
             IF iter.index = 0 THEN iter.size - 1 ELSE iter.index - 1
      [] OTHER -> iter.index

\* Variant of the switch whose forward case takes the modulo by size + 1.
IndexExpr_ModPlusOne(iter) ==
    CASE iter.mode = RING_BUFFER_ITER_OLD_TO_NEW ->
             SizeT(iter.index + 1) % (iter.size + 1)
      [] iter.mode = RING_BUFFER_ITER_NEW_TO_OLD ->
             IF iter.index = 0 THEN iter.size - 1 ELSE iter.index - 1
      [] OTHER -> iter.index

\* Variant of the switch whose backward case wraps to size, not size - 1.
IndexExpr_BackToSize(iter) ==
    CASE iter.mode = RING_BUFFER_ITER_OLD_TO_NEW ->
             SizeT(iter.index + 1) % iter.size
      [] iter.mode = RING_BUFFER_ITER_NEW_TO_OLD ->
             IF iter.index = 0 THEN iter.size ELSE iter.index - 1
      [] OTHER -> iter.index

\* Variant of the switch whose backward case lacks the test for index 0.
IndexExpr_NoGuard(iter) ==
    CASE iter.mode = RING_BUFFER_ITER_OLD_TO_NEW ->
             SizeT(iter.index + 1) % iter.size
      [] iter.mode = RING_BUFFER_ITER_NEW_TO_OLD -> iter.index - 1
      [] OTHER -> iter.index

\* The expression assigned to iter->index by the switch of rb_iter_advance(),
\* as an integer before its conversion to size_t.
IndexExpr(iter) ==
    CASE iter.mode = RING_BUFFER_ITER_OLD_TO_NEW ->
             SizeT(iter.index + 1) % iter.size
      [] iter.mode = RING_BUFFER_ITER_NEW_TO_OLD ->
             IF iter.index = 0 THEN iter.size - 1 ELSE iter.index - 1
      [] OTHER -> iter.index

\* Whether an unsigned operation of rb_iter_advance() wraps around on iter.
Wraps(iter) ==
    \/ IndexExpr(iter) < 0
    \/ iter.mode = RING_BUFFER_ITER_OLD_TO_NEW /\ iter.index + 1 > SIZE_MAX
    \/ iter.steps - 1 < 0

\* Variant of rb_iter_advance() that returns the index held before the call.
rb_iter_advance_OldIndex(iter) ==
    LET moved   == [iter EXCEPT !.index = SizeT(IndexExpr(iter))]
        counted == [moved EXCEPT !.steps = SizeT(moved.steps - 1)]
    IN  [iter |-> counted, ret |-> iter.index, wrapped |-> Wraps(iter)]

\* Variant of rb_iter_advance() that counts up: iter->steps++;
rb_iter_advance_Increment(iter) ==
    LET moved   == [iter EXCEPT !.index = SizeT(IndexExpr(iter))]
        counted == [moved EXCEPT !.steps = SizeT(moved.steps + 1)]
    IN  [iter |-> counted, ret |-> counted.index, wrapped |-> Wraps(iter)]

\* Variant of rb_iter_advance() that decrements the wrong field: iter->size--;
rb_iter_advance_WrongField(iter) ==
    LET moved   == [iter EXCEPT !.index = SizeT(IndexExpr(iter))]
        counted == [moved EXCEPT !.size = SizeT(moved.size - 1)]
    IN  [iter |-> counted, ret |-> counted.index, wrapped |-> Wraps(iter)]

\* rb_iter_advance(): the object after the call, the value returned, and
\* whether an unsigned operation wrapped around on the way.
rb_iter_advance(iter) ==
    LET moved   == [iter EXCEPT !.index = SizeT(IndexExpr(iter))]
        counted == [moved EXCEPT !.steps = SizeT(moved.steps - 1)]
    IN  [iter |-> counted, ret |-> counted.index, wrapped |-> Wraps(iter)]

\* Variant of the construction-time check with inclusive comparisons.
ValidRequest_Inclusive(capacity, start_position) ==
    /\ capacity >= 0
    /\ start_position >= 0
    /\ start_position <= capacity

\* The construction-time check: a request with capacity <= 0
\* (InvalidCapacity) or with a start position outside [0, capacity)
\* (InvalidStartPosition) is rejected.
ValidRequest(capacity, start_position) ==
    /\ capacity > 0
    /\ start_position >= 0
    /\ start_position < capacity

\* k successive calls of rb_iter_advance() on one object that nothing else
\* touches: the object they leave and the indices they return.
RECURSIVE SoloRun(_, _)
SoloRun(iter, k) ==
    IF k = 0
    THEN [iter |-> iter, out |-> <<>>]
    ELSE LET before == SoloRun(iter, k - 1)
             r      == rb_iter_advance(before.iter)
         IN  [iter |-> r.iter, out |-> Append(before.out, r.ret)]

\* Construction of a walker by the owning container.
new_walker(capacity, start_position, direction, step_count) ==
    [size  |-> capacity,
     index |-> start_position,
     mode  |-> direction,
     steps |-> step_count]

----------------------------------------------------------------------------
(* RangeValidator of Validator.h, with T the integers *)

\* Values of T given to the validator.
Values == (0 - 1)..MaxVal

\* RangeValidator(T min_, T max_): the object constructed.
RangeValidator(min_, max_) == [made |-> TRUE, min |-> min_, max |-> max_]

\* Variant of operator() that leaves out the upper limit: v >= min && v < max.
RangeValidator_call_Exclusive(rv, v) == v >= rv.min /\ v < rv.max

\* bool operator()(const T v) const
RangeValidator_call(rv, v) == v >= rv.min /\ v <= rv.max

----------------------------------------------------------------------------
(* State machine *)

NoCall == [op |-> "none", w |-> "none", index |-> 0, done |-> FALSE,
           wrapped |-> FALSE, req |-> NoIter]

\* No RangeValidator constructed; no application of it yet.
NoValidator == [made |-> FALSE, min |-> 0, max |-> 0]
NoVerdict == [op |-> "none", v |-> 0, ret |-> FALSE]

Init ==
    /\ iters = [w \in Walkers |-> NoIter]
    /\ args = [w \in Walkers |-> NoIter]
    /\ calls = [w \in Walkers |-> 0]
    /\ last = NoCall
    /\ visited = [w \in Walkers |-> <<>>]
    /\ validator = NoValidator
    /\ verdict = NoVerdict

\* The container constructs walker w.
New(w, capacity, start_position, direction, step_count) ==
    /\ ~Constructed(w)
    /\ ValidRequest(capacity, start_position)
    /\ step_count >= 0
    /\ iters' = [iters EXCEPT ![w] =
                    new_walker(capacity, start_position, direction, step_count)]
    /\ args' = [args EXCEPT ![w] =
                    new_walker(capacity, start_position, direction, step_count)]
    /\ calls' = [calls EXCEPT ![w] = 0]
    /\ last' = [NoCall EXCEPT !.op = "new", !.w = w]
    /\ visited' = [visited EXCEPT ![w] = <<>>]
    /\ UNCHANGED <<validator, verdict>>

\* The container asks for walker w with arguments that construction rejects:
\* no walker is created.
Reject(w, capacity, start_position, direction, step_count) ==
    /\ ~Constructed(w)
    /\ ~ValidRequest(capacity, start_position)
    /\ last' = [NoCall EXCEPT !.op = "rejected", !.w = w,
                              !.req = new_walker(capacity, start_position,
                                                 direction, step_count)]
    /\ UNCHANGED <<iters, args, calls, visited, validator, verdict>>

\* Variant of the call in which the iterator state is one shared object
\* rather than the object passed in: the call moves every walker.
Advance_SharedState(w) ==
    /\ Constructed(w)
    /\ LET r == rb_iter_advance(iters[w])
       IN  /\ iters' = [x \in Walkers |->
                           IF Constructed(x)
                           THEN rb_iter_advance(iters[x]).iter
                           ELSE iters[x]]
           /\ last' = [NoCall EXCEPT !.op = "advance", !.w = w,
                                     !.index = r.ret, !.wrapped = r.wrapped]
           /\ visited' = [visited EXCEPT ![w] = Append(@, r.ret)]
    /\ calls' = [calls EXCEPT ![w] = @ + 1]
    /\ UNCHANGED <<args, validator, verdict>>

\* A call rb_iter_advance(&iters[w]).
Advance(w) ==
    /\ Constructed(w)
    /\ LET r == rb_iter_advance(iters[w])
       IN  /\ iters' = [iters EXCEPT ![w] = r.iter]
           /\ last' = [NoCall EXCEPT !.op = "advance", !.w = w,
                                     !.index = r.ret, !.wrapped = r.wrapped]
           /\ visited' = [visited EXCEPT ![w] = Append(@, r.ret)]
    /\ calls' = [calls EXCEPT ![w] = @ + 1]
    /\ UNCHANGED <<args, validator, verdict>>

\* A call rb_iter_done(&iters[w]).
Done(w) ==
    /\ Constructed(w)
    /\ LET r == rb_iter_done(iters[w])
       IN  /\ iters' = [iters EXCEPT ![w] = r.iter]
           /\ last' = [NoCall EXCEPT !.op = "done", !.w = w, !.done = r.ret]
    /\ UNCHANGED <<args, calls, visited, validator, verdict>>

\* One walker, called in any order (the code checks nothing before a call).
Next ==
    \/ \E c \in 1..MaxCap, p \in 0..(MaxCap - 1), m \in rb_iter_mode,
          n \in 0..MaxSteps : New(W1, c, p, m, n)
    \/ (calls[W1] < MaxCalls /\ Advance(W1))
    \/ Done(W1)

Spec == Init /\ [][Next]_vars

\* One walker driven by the traversal loop
\*     while (!rb_iter_done(&it)) { i = rb_iter_advance(&it); ... }
LoopTest(w) == last.op \in {"new", "advance"} /\ last.w = w /\ Done(w)

LoopBody(w) == last.op = "done" /\ last.w = w /\ ~last.done /\ Advance(w)

LoopExit(w) == last.op = "done" /\ last.w = w /\ last.done

LoopNext ==
    \/ \E c \in 1..MaxCap, p \in 0..(MaxCap - 1), m \in rb_iter_mode,
          n \in 0..MaxSteps : New(W1, c, p, m, n)
    \/ LoopTest(W1)
    \/ LoopBody(W1)

LoopSpec == Init /\ [][LoopNext]_vars /\ WF_vars(LoopTest(W1) \/ LoopBody(W1))

\* Two independent walkers, called in any order.
PairNext ==
    \/ \E w \in Walkers, c \in 1..MaxPairCap, p \in 0..(MaxPairCap - 1),
          m \in rb_iter_mode, n \in 0..MaxPairSteps : New(w, c, p, m, n)
    \/ \E w \in Walkers : (calls[w] < MaxPairCalls /\ Advance(w))
    \/ \E w \in Walkers : Done(w)

PairSpec == Init /\ [][PairNext]_vars

\* Construction of the RangeValidator object.
RvNew(min_, max_) ==
    /\ ~validator.made
    /\ validator' = RangeValidator(min_, max_)
    /\ UNCHANGED <<iters, args, calls, last, visited, verdict>>

\* An application validator(v); operator() is const and so are min and max.
RvCall(v) ==
    /\ validator.made
    /\ verdict' = [op |-> "call", v |-> v, ret |-> RangeValidator_call(validator, v)]
    /\ UNCHANGED <<iters, args, calls, last, visited, validator>>

\* A validator constructed with any two limits and applied to any values.
ValidatorNext ==
    \/ \E a \in Values, b \in Values : RvNew(a, b)
    \/ \E v \in Values : RvCall(v)

ValidatorSpec == Init /\ [][ValidatorNext]_vars

\* One walker requested with any arguments, valid or not, then called in any
\* order.
CtorNext ==
    \/ \E c \in (0 - 1)..MaxCtorCap, p \in (0 - 1)..MaxCtorCap,
          m \in rb_iter_mode, n \in 0..MaxCtorSteps : New(W1, c, p, m, n)
    \/ \E c \in (0 - 1)..MaxCtorCap, p \in (0 - 1)..MaxCtorCap,
          m \in rb_iter_mode, n \in 0..MaxCtorSteps : Reject(W1, c, p, m, n)
    \/ (calls[W1] < MaxCtorCalls /\ Advance(W1))
    \/ Done(W1)

CtorSpec == Init /\ [][CtorNext]_vars

----------------------------------------------------------------------------
(* Steps of the state machine, as seen from a pair of successive states *)

\* The step is a call of rb_iter_advance() on walker w.
AdvanceStep(w) == Constructed(w) /\ calls'[w] = calls[w] + 1

\* The step is a call of rb_iter_done() on walker w.
DoneStep(w) ==
    /\ Constructed(w)
    /\ args' = args
    /\ calls' = calls
    /\ last'.op = "done"
    /\ last'.w = w

\* Walker w is Exhausted (steps == 0); otherwise it is Active.
Exhausted(w) == iters[w].steps = 0

----------------------------------------------------------------------------
(* Properties *)

\* C1: for every walker constructed with capacity c >= 1 and a start position
\* in [0, c), in either direction, after any sequence of rb_iter_advance()
\* calls the stored index lies in [0, c), and so does every value returned by
\* rb_iter_advance().
C1_PositionInRange ==
    \A w \in Walkers :
        Constructed(w) =>
            /\ iters[w].index >= 0
            /\ iters[w].index < args[w].size
            /\ (last.op = "advance" /\ last.w = w) =>
                   (last.index >= 0 /\ last.index < args[w].size)

\* A forward walker that was advanced past its step budget and has just
\* wrapped from the last slot to slot 0.
C1_Witness ==
    /\ Constructed(W1)
    /\ args[W1].mode = RING_BUFFER_ITER_OLD_TO_NEW
    /\ args[W1].size >= 3
    /\ calls[W1] > args[W1].steps
    /\ calls[W1] > args[W1].size
    /\ last.op = "advance"
    /\ last.index = 0

\* C2: under the loop "while (!rb_iter_done) rb_iter_advance", a walker
\* constructed with step count n is never advanced more than n times,
\* rb_iter_done() returns false while fewer than n advances were made and true
\* once exactly n were made, and the loop does leave with exactly n advances.
C2_LoopInv ==
    \A w \in Walkers :
        Constructed(w) =>
            /\ calls[w] <= args[w].steps
            /\ Exhausted(w) <=> (calls[w] = args[w].steps)
            /\ (last.op = "done" /\ last.w = w) =>
                   (last.done <=> (calls[w] = args[w].steps))

C2_ExhaustedAfterStepCount ==
    /\ [] C2_LoopInv
    /\ Constructed(W1) ~> (LoopExit(W1) /\ calls[W1] = args[W1].steps)

\* The loop has left after a traversal of more steps than the ring has slots.
C2_Witness ==
    /\ LoopExit(W1)
    /\ args[W1].steps >= 3
    /\ args[W1].steps > args[W1].size
    /\ calls[W1] = args[W1].steps

\* C3: one advance maps the index to the next one by direction: forward to
\* (index + 1) mod capacity, backward to capacity - 1 from slot 0 and to
\* index - 1 otherwise; with capacity 5, slot 4 goes to 0 forward and slot 0
\* goes to 4 backward.
C3_NextIndex(mode, index, capacity) ==
    IF mode = RING_BUFFER_ITER_OLD_TO_NEW
    THEN (index + 1) % capacity
    ELSE IF index = 0 THEN capacity - 1 ELSE index - 1

C3_Examples ==
    \A w \in Walkers :
        (Constructed(w) /\ args[w].size = 5 /\ calls[w] = 1) =>
            /\ (/\ args[w].mode = RING_BUFFER_ITER_OLD_TO_NEW
                /\ args[w].index = 4) =>
                   (iters[w].index = 0 /\ (last.op = "advance" => last.index = 0))
            /\ (/\ args[w].mode = RING_BUFFER_ITER_NEW_TO_OLD
                /\ args[w].index = 0) =>
                   (iters[w].index = 4 /\ (last.op = "advance" => last.index = 4))

C3_AdvanceMapsToNextIndex ==
    /\ [] C3_Examples
    /\ [][\A w \in Walkers :
             AdvanceStep(w) =>
                 iters'[w].index =
                     C3_NextIndex(args[w].mode, iters[w].index, args[w].size)]_vars

\* A backward walker of capacity 5 started at slot 0 has advanced once.
C3_Witness ==
    /\ Constructed(W1)
    /\ args[W1].size = 5
    /\ args[W1].mode = RING_BUFFER_ITER_NEW_TO_OLD
    /\ args[W1].index = 0
    /\ calls[W1] = 1
    /\ last.op = "advance"
    /\ last.index = 4

\* C4: each rb_iter_advance() on an Active walker decrements steps by exactly
\* one and returns the index as stored after the update.
C4_AdvanceDecrementsAndReturnsNew ==
    [][\A w \in Walkers :
          (AdvanceStep(w) /\ ~Exhausted(w)) =>
              /\ iters'[w].steps = iters[w].steps - 1
              /\ last'.op = "advance"
              /\ last'.w = w
              /\ last'.index = iters'[w].index]_vars

\* An Active walker has advanced once, to a slot other than the one it held.
C4_Witness ==
    /\ Constructed(W1)
    /\ args[W1].steps >= 2
    /\ calls[W1] = 1
    /\ iters[W1].steps = args[W1].steps - 1
    /\ last.op = "advance"
    /\ last.index = iters[W1].index
    /\ last.index # args[W1].index

\* C5: rb_iter_done() returns true iff steps == 0 and changes no field of the
\* walker, in any state, also when called again on an exhausted walker.
C5_DoneIsPureQuery ==
    [][\A w \in Walkers :
          DoneStep(w) =>
              /\ iters' = iters
              /\ last'.done <=> (iters[w].steps = 0)]_vars

\* rb_iter_done() has returned true on a walker that used up its budget.
C5_Witness ==
    /\ Constructed(W1)
    /\ args[W1].steps >= 2
    /\ calls[W1] = args[W1].steps
    /\ last.op = "done"
    /\ last.done
    /\ iters[W1].steps = 0

\* C6 (as claimed): across every operation steps only decreases: no operation
\* increases it and it never goes below zero.
C6_StepsNeverIncrease ==
    [][\A w \in Walkers :
          (Constructed(w) /\ Constructed(w)') =>
              /\ iters'[w].steps <= iters[w].steps
              /\ iters'[w].steps >= 0]_vars

\* C6 (amended): steps never goes below zero, and no operation applied to an
\* Active walker increases it; the one operation that increases steps is
\* rb_iter_advance() called on an Exhausted walker, which wraps it from 0 to
\* SIZE_MAX.
C6_StepsDecreaseWhileActive ==
    /\ [] (\A w \in Walkers : iters[w].steps >= 0 /\ iters[w].steps <= SIZE_MAX)
    /\ [][\A w \in Walkers :
             (Constructed(w) /\ Constructed(w)') =>
                 /\ ~Exhausted(w) => iters'[w].steps <= iters[w].steps
                 /\ iters'[w].steps > iters[w].steps =>
                        /\ AdvanceStep(w)
                        /\ Exhausted(w)
                        /\ iters'[w].steps = SIZE_MAX]_vars

\* A walker counted down to 0, was advanced again and counts down from SIZE_MAX.
C6_Witness ==
    /\ Constructed(W1)
    /\ args[W1].steps >= 2
    /\ calls[W1] = args[W1].steps + 2
    /\ iters[W1].steps = SIZE_MAX - 1

\* C7 (as claimed): Exhausted is absorbing: once steps == 0 no operation takes
\* the walker back to steps > 0; and the only transitions out of Active are to
\* Active and to Exhausted, taken by rb_iter_advance() alone.
C7_ExhaustedAbsorbing ==
    [][\A w \in Walkers :
          (Constructed(w) /\ Constructed(w)') =>
              /\ Exhausted(w) => Exhausted(w)'
              /\ (~Exhausted(w) /\ iters'[w] # iters[w]) => AdvanceStep(w)]_vars

\* C7 (amended): rb_iter_done() never takes a walker out of Exhausted; the
\* only operation that does is rb_iter_advance() called on an Exhausted
\* walker, which wraps steps to SIZE_MAX; and the only transitions out of
\* Active are to Active and to Exhausted, one step down, taken by
\* rb_iter_advance() alone.
C7_ExhaustedLeftOnlyByAdvance ==
    [][\A w \in Walkers :
          (Constructed(w) /\ Constructed(w)') =>
              /\ (Exhausted(w) /\ DoneStep(w)) => Exhausted(w)'
              /\ (Exhausted(w) /\ ~Exhausted(w)') =>
                     (AdvanceStep(w) /\ iters'[w].steps = SIZE_MAX)
              /\ (~Exhausted(w) /\ iters'[w] # iters[w]) =>
                     (AdvanceStep(w) /\ iters'[w].steps = iters[w].steps - 1)]_vars

\* rb_iter_done() was called on a walker that went from Active to Exhausted.
C7_Witness ==
    /\ Constructed(W1)
    /\ args[W1].steps >= 1
    /\ calls[W1] = args[W1].steps
    /\ Exhausted(W1)
    /\ last.op = "done"
    /\ last.w = W1

\* C8: for every capacity > 1 and every start position p, a forward walker
\* that has made capacity successive advances holds index p again.
C8_FullCycleClosure ==
    \A w \in Walkers :
        (/\ Constructed(w)
         /\ args[w].mode = RING_BUFFER_ITER_OLD_TO_NEW
         /\ args[w].size > 1
         /\ calls[w] = args[w].size) => iters[w].index = args[w].index

\* A forward walker of capacity >= 3 started off slot 0 has gone full circle.
C8_Witness ==
    /\ Constructed(W1)
    /\ args[W1].mode = RING_BUFFER_ITER_OLD_TO_NEW
    /\ args[W1].size >= 3
    /\ args[W1].index >= 1
    /\ calls[W1] = args[W1].size
    /\ iters[W1].index = args[W1].index

\* C9: if a forward walker started at p advances once to q, an independent
\* backward walker of the same capacity started at q advances once to p.
C9_Pair(a, b) ==
    (/\ Constructed(a)
     /\ Constructed(b)
     /\ args[a].mode = RING_BUFFER_ITER_OLD_TO_NEW
     /\ calls[a] = 1
     /\ args[b].mode = RING_BUFFER_ITER_NEW_TO_OLD
     /\ args[b].size = args[a].size
     /\ args[b].index = iters[a].index
     /\ calls[b] = 1) => iters[b].index = args[a].index

C9_DirectionalInverse ==
    \A a \in Walkers : \A b \in Walkers \ {a} : C9_Pair(a, b)

\* The forward walker wrapped from the last slot to 0 and the backward walker
\* started at 0 has advanced once.
C9_Witness ==
    /\ Constructed(W1)
    /\ Constructed(W2)
    /\ args[W1].mode = RING_BUFFER_ITER_OLD_TO_NEW
    /\ args[W1].size >= 2
    /\ args[W1].index = args[W1].size - 1
    /\ calls[W1] = 1
    /\ iters[W1].index = 0
    /\ args[W2].mode = RING_BUFFER_ITER_NEW_TO_OLD
    /\ args[W2].size = args[W1].size
    /\ args[W2].index = 0
    /\ calls[W2] = 1
    /\ iters[W2].index = args[W1].index

\* C10: on a walker constructed with capacity > 0 and a start position in
\* range, advanced only while steps > 0, rb_iter_advance() cannot fail: its
\* divisor is never zero, no unsigned operation on index or steps wraps, and
\* the walker stays well formed.
C10_AdvanceCannotFail ==
    \A w \in Walkers :
        Constructed(w) =>
            /\ iters[w].size > 0
            /\ iters[w].index >= 0
            /\ iters[w].index < iters[w].size
            /\ iters[w].mode = args[w].mode
            /\ iters[w].steps = args[w].steps - calls[w]
            /\ iters[w].steps >= 0
            /\ (last.op = "advance" /\ last.w = w) => ~last.wrapped

\* The last advance of a backward traversal wrapped from slot 0 to the top.
C10_Witness ==
    /\ Constructed(W1)
    /\ args[W1].mode = RING_BUFFER_ITER_NEW_TO_OLD
    /\ args[W1].size >= 2
    /\ args[W1].steps >= 2
    /\ last.op = "advance"
    /\ last.index = args[W1].size - 1
    /\ iters[W1].steps = 0

\* C11: a construction request with capacity <= 0 or with a start position
\* outside [0, capacity) is rejected and creates no walker, so every walker
\* that exists, and every walker rb_iter_advance() is called on, has
\* capacity > 0 and an index in [0, capacity).
C11_WellFormed(w) ==
    /\ args[w].size > 0
    /\ args[w].index >= 0
    /\ args[w].index < args[w].size
    /\ iters[w].size > 0
    /\ iters[w].index >= 0
    /\ iters[w].index < iters[w].size

C11_Inv ==
    /\ \A w \in Walkers : Constructed(w) => C11_WellFormed(w)
    /\ last.op = "rejected" =>
           /\ \/ last.req.size <= 0
              \/ last.req.index < 0
              \/ last.req.index >= last.req.size
           /\ ~Constructed(last.w)
           /\ iters[last.w] = NoIter

C11_InvalidConstructionRejected ==
    /\ [] C11_Inv
    /\ [][\A w \in Walkers :
             /\ (last'.op = "rejected" /\ last'.w = w) =>
                    (iters' = iters /\ args' = args /\ calls' = calls)
             /\ AdvanceStep(w) => C11_WellFormed(w)]_vars

\* A request with capacity 0 has just been rejected and left no walker.
C11_Witness ==
    /\ last.op = "rejected"
    /\ last.w = W1
    /\ last.req.size = 0
    /\ last.req.index = 0
    /\ ~Constructed(W1)

\* C12: RangeValidator(min, max) applied to v returns true if and only if
\* min <= v <= max, both limits included, and the result is determined by
\* (min, max, v): the limits stay as constructed.
C12_InRange(lo, hi, v) == lo <= v /\ v <= hi

C12_Inv ==
    /\ verdict.op = "call" =>
           /\ validator.made
           /\ verdict.ret <=> C12_InRange(validator.min, validator.max, verdict.v)
           /\ (verdict.v = validator.min /\ validator.min <= validator.max) =>
                  verdict.ret
           /\ (verdict.v = validator.max /\ validator.min <= validator.max) =>
                  verdict.ret

C12_RangeValidatorInclusive ==
    /\ [] C12_Inv
    /\ [][validator.made => validator' = validator]_vars

\* The validator has accepted a value equal to its upper limit.
C12_Witness ==
    /\ verdict.op = "call"
    /\ validator.min < validator.max
    /\ verdict.v = validator.max
    /\ verdict.ret

\* C13: neither rb_iter_advance() nor rb_iter_done() ever changes size or
\* mode: both keep the values given at construction in every reachable state;
\* and index is changed by rb_iter_advance() only.
C13_Inv ==
    \A w \in Walkers :
        Constructed(w) =>
            /\ iters[w].size = args[w].size
            /\ iters[w].mode = args[w].mode

C13_CapacityAndDirectionFixed ==
    /\ [] C13_Inv
    /\ [][\A w \in Walkers :
             (Constructed(w) /\ Constructed(w)') =>
                 /\ iters'[w].size = iters[w].size
                 /\ iters'[w].mode = iters[w].mode
                 /\ DoneStep(w) => iters'[w].index = iters[w].index
                 /\ iters'[w].index # iters[w].index => AdvanceStep(w)]_vars

\* After several advances and a rb_iter_done() call the walker stands on
\* another slot, with the capacity and the direction it was constructed with.
C13_Witness ==
    /\ Constructed(W1)
    /\ args[W1].size >= 3
    /\ calls[W1] >= 2
    /\ last.op = "done"
    /\ iters[W1].index # args[W1].index
    /\ iters[W1].size = args[W1].size
    /\ iters[W1].mode = args[W1].mode

\* C14: two independently constructed walkers do not interfere: under any
\* interleaving of rb_iter_advance() and rb_iter_done() calls on the two, each
\* walker has returned the indices, holds the state and reports the
\* exhaustion that the same number of advances give when it is driven alone.
C14_AsAlone(w) ==
    LET solo == SoloRun(args[w], calls[w])
    IN  /\ visited[w] = solo.out
        /\ iters[w] = solo.iter
        /\ Exhausted(w) <=> rb_iter_done(solo.iter).ret
        /\ (last.op = "done" /\ last.w = w) =>
               (last.done <=> rb_iter_done(solo.iter).ret)
        /\ (last.op = "advance" /\ last.w = w) =>
               last.index = solo.out[calls[w]]

C14_WalkersIndependent ==
    \A w \in Walkers : Constructed(w) => C14_AsAlone(w)

\* Two walkers of different capacity and direction have both been advanced to
\* exhaustion.
C14_Witness ==
    /\ Constructed(W1)
    /\ Constructed(W2)
    /\ args[W1].mode # args[W2].mode
    /\ args[W1].size # args[W2].size
    /\ args[W1].steps = 2
    /\ args[W2].steps = 2
    /\ calls[W1] = 2
    /\ calls[W2] = 2
    /\ Exhausted(W1)
    /\ Exhausted(W2)

\* C15: for a walker of capacity c started at p, the k-th advance returns
\* (p + k) mod c forward and (p - k) mod c backward; so a backward step is
\* (index + c - 1) mod c, and c successive backward advances return to p.
C15_ClosedForm(mode, p, c, k) ==
    IF mode = RING_BUFFER_ITER_OLD_TO_NEW THEN (p + k) % c ELSE (p - k) % c

C15_Inv ==
    \A w \in Walkers :
        Constructed(w) =>
            /\ Len(visited[w]) = calls[w]
            /\ \A k \in 1..Len(visited[w]) :
                   visited[w][k] =
                       C15_ClosedForm(args[w].mode, args[w].index, args[w].size, k)
            /\ (/\ args[w].mode = RING_BUFFER_ITER_NEW_TO_OLD
                /\ calls[w] = args[w].size) => iters[w].index = args[w].index

C15_TraversalClosedForm ==
    /\ [] C15_Inv
    /\ [][\A w \in Walkers :
             (AdvanceStep(w) /\ args[w].mode = RING_BUFFER_ITER_NEW_TO_OLD) =>
                 iters'[w].index =
                     (iters[w].index + args[w].size - 1) % args[w].size]_vars

\* A backward walker of capacity >= 3 started off slot 0 has gone full circle.
C15_Witness ==
    /\ Constructed(W1)
    /\ args[W1].mode = RING_BUFFER_ITER_NEW_TO_OLD
    /\ args[W1].size >= 3
    /\ args[W1].index >= 1
    /\ args[W1].steps >= args[W1].size
    /\ calls[W1] = args[W1].size
    /\ Len(visited[W1]) = args[W1].size
    /\ iters[W1].index = args[W1].index

\* C16: in a traversal with step_count <= capacity the indices returned are
\* pairwise distinct; with step_count == capacity every slot is returned
\* exactly once and the start position comes last; with step_count < capacity
\* the start position is never returned.
C16_OnePass(w) ==
    /\ Constructed(w)
    /\ args[w].steps <= args[w].size
    /\ calls[w] <= args[w].steps

C16_NoSlotTwice ==
    \A w \in Walkers :
        C16_OnePass(w) =>
            /\ \A i \in 1..Len(visited[w]) : \A j \in 1..Len(visited[w]) :
                   i # j => visited[w][i] # visited[w][j]
            /\ (args[w].steps = args[w].size /\ calls[w] = args[w].steps) =>
                   /\ {visited[w][k] : k \in 1..Len(visited[w])} =
                          0..(args[w].size - 1)
                   /\ Len(visited[w]) = args[w].size
                   /\ visited[w][Len(visited[w])] = args[w].index
            /\ args[w].steps < args[w].size =>
                   \A k \in 1..Len(visited[w]) : visited[w][k] # args[w].index

\* A full pass over a ring of >= 3 slots started off slot 0 has ended on the
\* start position.
C16_Witness ==
    /\ Constructed(W1)
    /\ args[W1].size >= 3
    /\ args[W1].index >= 1
    /\ args[W1].steps = args[W1].size
    /\ calls[W1] = args[W1].size
    /\ visited[W1][Len(visited[W1])] = args[W1].index

====
